---- MODULE Spec2Model ----
(***************************************************************************)
(* Model of the @soorria/logger core: the Logger (severity filtering,      *)
(* record assembly, child derivation), the JSON formatter and the parts of *)
(* the pretty formatter that the Logger calls, the output destinations,    *)
(* and the asynchronous context store.                                     *)
(*                                                                         *)
(* JavaScript values are records tagged with `kind`; objects that the      *)
(* program shares by reference live in `heap` (scope mappings) and in      *)
(* `store.objects` (context mappings).                                     *)
(***************************************************************************)
EXTENDS Integers, Sequences, FiniteSets, TLC

VARIABLES
  env,        \* process.env.LOG_LEVEL: a string, or Unset
  heap,       \* scope objects, addressed by their index
  loggers,    \* Logger instances: the private `config` of each
  derived,    \* for each Logger: how it was made (parent, additions, constructor
              \* input, scope mapping at construction)
  store,      \* src/lib/async-context.ts: the `storage` variable, the context
              \* objects made so far, and for every asynchronous execution the
              \* stack of stores that AsyncLocalStorage holds for it
  blocks,     \* for each context object: the runWithContext call that made it
              \* and the mutateContextScope calls applied to it since
  last        \* the most recent operation and what it did: for a log call the
              \* texts it passed to console.log (`console`) and to the
              \* writeLog of the configured transport (`transport`)

vars == <<env, heap, loggers, derived, store, blocks, last>>

----------------------------------------------------------------------------
(* Bounds *)

MaxLoggers == 3
\* asynchronous executions; context objects (and so nested runWithContext blocks)
MaxExecutions == 2
MaxContexts == 2
\* error objects that refer to each other through `cause`
MaxErrors == 3
\* nested calls the call stack of the engine has room for
MaxStack == 5

----------------------------------------------------------------------------
(* JavaScript values *)

Undefined == [kind |-> "undefined"]
Null == [kind |-> "null"]
Num(n) == [kind |-> "number", n |-> n]
Str(s) == [kind |-> "string", s |-> s]
Bool(b) == [kind |-> "boolean", b |-> b]
BigInt(n) == [kind |-> "bigint", n |-> n]
Symbol == [kind |-> "symbol"]
Function == [kind |-> "function"]
RegExp == [kind |-> "regexp"]
Promise == [kind |-> "promise"]
Arr(items) == [kind |-> "array", items |-> items]
\* an object with own enumerable data properties `props`; `self` is the set of
\* keys holding a reference to the object itself, `getters` the set of keys
\* that are accessors whose getter raises
Obj(props, self, getters) ==
  [kind |-> "object", props |-> props, self |-> self, getters |-> getters]
\* an Error: `props` are its extra own enumerable properties, `inherited` the
\* enumerable properties of its prototype chain, `cause` is error.cause
\* (Undefined when there is none)
Err(message, props, cause) ==
  [kind |-> "error", message |-> message, props |-> props, inherited |-> <<>>,
   cause |-> cause, toJSON |-> [kind |-> "undefined"]]
\* an Error of a class whose prototype has enumerable properties
ErrInheriting(message, props, inherited) ==
  [kind |-> "error", message |-> message, props |-> props, inherited |-> inherited,
   cause |-> [kind |-> "undefined"], toJSON |-> [kind |-> "undefined"]]
\* an Error with a toJSON method; `result` is what calling it does: it returns
\* a value or raises
ErrWithToJSON(message, props, cause, result) ==
  [kind |-> "error", message |-> message, props |-> props, inherited |-> <<>>,
   cause |-> cause, toJSON |-> [kind |-> "function", result |-> result]]

EmptyMap == <<>>
Map1(k, v) == k :> v
Map2(k1, v1, k2, v2) == (k1 :> v1) @@ (k2 :> v2)
Plain(props) == Obj(props, {}, {})

\* ToBoolean
Truthy(v) ==
  CASE v.kind \in {"undefined", "null"} -> FALSE
    [] v.kind \in {"number", "bigint"} -> v.n # 0
    [] v.kind = "string" -> v.s # ""
    [] v.kind = "boolean" -> v.b
    [] v.kind = "text" -> ~(v.via = "template" /\ v.of = Str(""))
    [] OTHER -> TRUE

\* typeof
TypeOf(v) ==
  CASE v.kind \in {"undefined", "number", "string", "boolean", "bigint",
                   "symbol", "function"} -> v.kind
    [] v.kind = "text" -> "string"
    [] OTHER -> "object"

\* {...a, ...b} and Object.assign(a, b) on the mappings themselves: the keys
\* of both, with b's value where both have the key
Overlay(a, b) == b @@ a

\* the mapping with keys K and the values f gives them
RECURSIVE MapFrom(_, _)
MapFrom(K, f) ==
  IF K = {} THEN <<>>
  ELSE LET k == CHOOSE x \in K : TRUE IN (k :> f[k]) @@ MapFrom(K \ {k}, f)

----------------------------------------------------------------------------
(* src/lib/types.ts: enum LogLevel.  A numeric TypeScript enum compiles to  *)
(* an object holding both name -> number and number -> name entries.        *)

LogLevelNames == {"debug", "info", "warn", "error", "fatal", "silent"}

LogLevel(name) ==
  CASE name = "debug" -> 10
    [] name = "info" -> 20
    [] name = "warn" -> 30
    [] name = "error" -> 40
    [] name = "fatal" -> 50
    [] name = "silent" -> 100

LogLevelNumericKeys == {"10", "20", "30", "40", "50", "100"}

LogLevelReverse(key) ==
  CASE key = "10" -> "debug"
    [] key = "20" -> "info"
    [] key = "30" -> "warn"
    [] key = "40" -> "error"
    [] key = "50" -> "fatal"
    [] key = "100" -> "silent"

\* keys found through the prototype chain of the enum object
ObjectPrototypeKeys == {"toString"}

\* `key in LogLevel`
InLogLevel(key) ==
  key \in LogLevelNames \cup LogLevelNumericKeys \cup ObjectPrototypeKeys

\* `LogLevel[key]` for a key that is `in LogLevel`
LogLevelLookup(key) ==
  IF key \in LogLevelNames THEN Num(LogLevel(key))
  ELSE IF key \in LogLevelNumericKeys THEN Str(LogLevelReverse(key))
  ELSE Function

Severities == {LogLevel(n) : n \in LogLevelNames}

\* the methods that log: debug/info/warn/error/fatal (silent() is separate)
LogMethods == LogLevelNames \ {"silent"}

----------------------------------------------------------------------------
(* Relational comparison `number < value` as JavaScript evaluates it *)

NaN == [nan |-> TRUE, n |-> 0]

NumericStringValue(s) ==
  CASE s = "" -> 0
    [] s = "10" -> 10
    [] s = "20" -> 20
    [] s = "30" -> 30
    [] s = "40" -> 40
    [] s = "50" -> 50
    [] s = "100" -> 100

\* ToNumber
ToNumber(v) ==
  CASE v.kind = "number" -> [nan |-> FALSE, n |-> v.n]
    [] v.kind = "string" ->
         IF v.s \in LogLevelNumericKeys \cup {""}
         THEN [nan |-> FALSE, n |-> NumericStringValue(v.s)]
         ELSE NaN
    [] v.kind = "boolean" -> [nan |-> FALSE, n |-> IF v.b THEN 1 ELSE 0]
    [] v.kind = "null" -> [nan |-> FALSE, n |-> 0]
    [] OTHER -> NaN

\* `n < v` with n a number: false whenever v converts to NaN
JsLessThan(n, v) == ~ToNumber(v).nan /\ n < ToNumber(v).n

----------------------------------------------------------------------------
(* src/lib/utils.ts *)

isObject(item) ==
  Truthy(item) /\ TypeOf(item) = "object" /\ item.kind # "array"

----------------------------------------------------------------------------
(* Formatters.  A formatter call either returns a value or raises. *)

Returned(v) == [raised |-> FALSE, value |-> v]
Raised == [raised |-> TRUE, value |-> Undefined]

\* a rendered string: which renderer produced it, and from what
Text(via, arg) == [kind |-> "text", via |-> via, of |-> arg]

\* the own enumerable properties that Object.assign / JSON.stringify / for-in
\* read from an object; a self-referencing key holds the object itself
OwnProps(v) ==
  IF v.kind = "object"
  THEN Overlay(v.props, MapFrom(v.self, [k \in v.self |-> v]))
  ELSE IF v.kind = "logData"
  THEN MapFrom((DOMAIN v) \ {"kind", "order"}, v)
  ELSE EmptyMap

\* reading every own enumerable property invokes a getter that raises
ReadingRaises(v) == v.kind = "object" /\ v.getters # {}

\* PrettyLogFormatter.formatLevel: LOG_LEVEL_FORMATTING[level] is undefined for
\* anything but a severity, and destructuring undefined raises
formatLevelRaises(arg) ==
  IF arg.kind = "logData" THEN arg.level \notin Severities
  ELSE IF arg.kind \in {"object", "error"} /\ "level" \in DOMAIN arg.props
  THEN LET lv == arg.props["level"] IN
       ~((lv.kind = "number" /\ lv.n \in Severities)
          \/ (lv.kind = "string" /\ lv.s \in LogLevelNumericKeys))
  ELSE TRUE

\* a variant that takes no cause for an error
causeNeverError(cause) == FALSE

\* `error.cause instanceof Error`
causeIsError(cause) == cause.kind = "error"

RECURSIVE formatLogData(_, _), errorToObject(_, _), StringifyThrows(_, _)

\* JSON.stringify(arg, jsonReplacer) throws: a cycle, a getter that raises, or
\* a replacer call (formatError) that raises
StringifyThrows(fmt, v) ==
  CASE v.kind = "error" ->
         \* JSON.stringify calls value.toJSON() before the replacer sees the value
         IF TypeOf(v.toJSON) = "function"
         THEN v.toJSON.result.raised \/ StringifyThrows(fmt, v.toJSON.result.value)
         ELSE LET e == errorToObject(v, fmt)
              IN e.raised \/ StringifyThrows(fmt, Plain(e.value))
    [] v.kind = "array" -> \E i \in DOMAIN v.items : StringifyThrows(fmt, v.items[i])
    [] v.kind = "object" ->
         \/ v.self # {}
         \/ v.getters # {}
         \/ \E k \in DOMAIN v.props : StringifyThrows(fmt, v.props[k])
    [] v.kind = "logData" ->
         \E k \in (DOMAIN v) \ {"kind", "order", "level", "message"} :
            StringifyThrows(fmt, v[k])
    [] OTHER -> FALSE

\* JsonLogFormatter.formatLogData and the PrettyLogFormatter override
formatLogData(fmt, arg) ==
  IF fmt = "pretty"
  THEN IF arg.kind \in {"undefined", "null"} \/ formatLevelRaises(arg)
       THEN Raised
       ELSE Returned(Text("pretty", arg))
  ELSE IF TypeOf(arg) # "object"
       THEN IF arg.kind = "symbol" THEN Raised ELSE Returned(Text("template", arg))
       ELSE IF StringifyThrows(fmt, arg)
            THEN Returned(Text("inspect", arg))
            ELSE Returned(Text("json", arg))

\* errorToObject(error, formatter), reached through formatter.formatError
errorToObject(error, fmt) ==
  LET \* error[key]: an own property first, then the prototype chain
      read == Overlay(error.inherited, error.props)
      \* error.name and error.message read a property of that name first
      base == [name |-> IF "name" \in DOMAIN read THEN read["name"] ELSE Str("Error"),
               message |-> IF "message" \in DOMAIN read THEN read["message"]
                           ELSE Str(error.message),
               stack |-> Str("stack")]
      \* `"toJSON" in error && typeof error.toJSON === "function"`
      hasToJSON == TypeOf(error.toJSON) = "function"
      json == IF hasToJSON THEN error.toJSON.result ELSE Returned(Undefined)
      \* Object.assign(errObject, error.toJSON()): the own properties of an
      \* object; null, undefined, numbers and booleans contribute nothing
      assigned == IF ~json.raised /\ json.value.kind = "object"
                  THEN OwnProps(json.value) ELSE EmptyMap
      \* `for (const key in error)` visits own and inherited enumerable keys;
      \* `key in errObject` also holds for the keys of Object.prototype
      extraKeys == IF hasToJSON THEN {}
                   ELSE (DOMAIN read) \ (DOMAIN base \cup ObjectPrototypeKeys)
      extras == [k \in extraKeys |-> formatLogData(fmt, read[k])]
      withExtras == IF hasToJSON THEN Overlay(base, assigned)
                    ELSE Overlay(base, MapFrom(extraKeys, [k \in extraKeys |-> extras[k].value]))
      cause == IF ~Truthy(error.cause) THEN Returned(Undefined)
               ELSE IF causeIsError(error.cause)
               THEN LET c == errorToObject(error.cause, fmt) IN
                    IF c.raised THEN Raised
                    ELSE Returned(Plain(c.value))
               ELSE formatLogData(fmt, error.cause)
  IN IF json.raised \/ (~json.raised /\ ReadingRaises(json.value)) THEN Raised
     ELSE IF \E k \in extraKeys : extras[k].raised THEN Raised
     ELSE IF cause.raised THEN Raised
     ELSE IF Truthy(error.cause)
          THEN Returned(Overlay(withExtras, "cause" :> cause.value))
          ELSE Returned(withExtras)

formatError(fmt, key, error) == errorToObject(error, fmt)

----------------------------------------------------------------------------
(* The characters of a rendered text.  A template literal gives the string  *)
(* conversion of the value; JSON.stringify gives a JSON document, after the *)
(* replacer was applied to every member.                                    *)

Digit(d) ==
  CASE d = 0 -> "0" [] d = 1 -> "1" [] d = 2 -> "2" [] d = 3 -> "3" [] d = 4 -> "4"
    [] d = 5 -> "5" [] d = 6 -> "6" [] d = 7 -> "7" [] d = 8 -> "8" [] d = 9 -> "9"

\* the decimal digits of a natural number
RECURSIVE Decimal(_)
Decimal(n) == IF n < 10 THEN Digit(n) ELSE Decimal(n \div 10) \o Digit(n % 10)

\* `${value}` for the values that can be converted
TemplateString(v) ==
  CASE v.kind \in {"number", "bigint"} -> Decimal(v.n)
    [] v.kind = "string" -> v.s
    [] v.kind = "boolean" -> IF v.b THEN "true" ELSE "false"
    [] v.kind = "undefined" -> "undefined"
    [] v.kind = "function" -> "function () {}"

\* what a text consists of: raw characters, a JSON document, or the output of
\* util.inspect for a value
Raw(s) == [form |-> "raw", s |-> s]
JsonText(doc, space) == [form |-> "json", doc |-> doc, space |-> space]
Inspected(arg) == [form |-> "inspect", of |-> arg]

\* JSON documents
JNull == [t |-> "null"]
JBool(b) == [t |-> "boolean", b |-> b]
JNum(n) == [t |-> "number", n |-> n]
JStr(chars) == [t |-> "string", chars |-> chars]
JArr(items) == [t |-> "array", items |-> items]
JObj(members) == [t |-> "object", members |-> members]
\* JSON.stringify has no output for the value (undefined, a function, a symbol)
NoJson == [t |-> "none"]

\* this.jsonStringifySpace: 2 unless the formatter is compact
jsonStringifySpace(fmt) == IF fmt = "compact" THEN Undefined ELSE Num(2)

\* a variant that passes undefined through, so that JSON.stringify omits it
jsonReplacerNoSentinel(fmt, key, value) ==
  CASE value.kind = "bigint" -> Str(Decimal(value.n))
    [] value.kind = "regexp" -> Str("Regexp { /source/flags }")
    [] value.kind = "promise" ->
         Str("Promise { you tried to log a promise at " \o key \o ". try awaiting it pls }")
    [] value.kind = "error" -> Plain(formatError(fmt, key, value).value)
    [] OTHER -> value

\* JsonLogFormatter.jsonReplacer
jsonReplacer(fmt, key, value) ==
  CASE value.kind = "bigint" -> Str(Decimal(value.n))
    [] value.kind = "regexp" -> Str("Regexp { /source/flags }")
    [] value.kind = "promise" ->
         Str("Promise { you tried to log a promise at " \o key \o ". try awaiting it pls }")
    [] value.kind = "undefined" -> Str("FakeValue { undefined }")
    [] value.kind = "error" -> Plain(formatError(fmt, key, value).value)
    [] OTHER -> value

\* the members of a record as values: level is a number, message a string
RecordProps(logData) ==
  LET keys == (DOMAIN logData) \ {"kind", "order"}
  IN MapFrom(keys, [k \in keys |-> IF k = "level" THEN Num(logData.level)
                                   ELSE IF k = "message" THEN Str(logData.message)
                                   ELSE logData[k]])

RECURSIVE Characters(_, _), Stringify(_, _, _)

\* JSON.stringify(holder[key], replacer) for a value whose serialization does
\* not throw: the replacer first, then the value by its type
Stringify(fmt, key, value) ==
  LET \* value.toJSON(key), when the value has the method
      given == IF value.kind = "error" /\ TypeOf(value.toJSON) = "function"
               THEN value.toJSON.result.value ELSE value
      v == jsonReplacer(fmt, key, given) IN
  CASE v.kind = "null" -> JNull
    [] v.kind = "boolean" -> JBool(v.b)
    [] v.kind = "number" -> JNum(v.n)
    [] v.kind = "string" -> JStr(Raw(v.s))
    [] v.kind = "text" -> JStr(Characters(fmt, v))
    [] v.kind = "array" ->
         JArr([i \in DOMAIN v.items |->
                 LET d == Stringify(fmt, Decimal(i - 1), v.items[i])
                 IN IF d = NoJson THEN JNull ELSE d])
    [] v.kind \in {"object", "logData"} ->
         LET props == IF v.kind = "logData" THEN RecordProps(v) ELSE OwnProps(v)
             docs == [k \in DOMAIN props |-> Stringify(fmt, k, props[k])]
             kept == {k \in DOMAIN props : docs[k] # NoJson}
         IN JObj(MapFrom(kept, docs))
    [] OTHER -> NoJson

\* the characters of a text that formatLogData returned
Characters(fmt, text) ==
  CASE text.via = "template" -> Raw(TemplateString(text.of))
    [] text.via = "json" -> JsonText(Stringify(fmt, "", text.of), jsonStringifySpace(fmt))
    [] OTHER -> Inspected(text.of)

\* the top-level keys of a JSON text of a record, in the order JSON.stringify
\* writes them: the order in which the keys were set
DocumentKeys(fmt, text) ==
  LET c == Characters(fmt, text)
  IN SelectSeq(text.of.order, LAMBDA k : k \in DOMAIN c.doc.members)

\* JSON.parse
RECURSIVE FromJson(_)
FromJson(doc) ==
  CASE doc.t = "null" -> Null
    [] doc.t = "boolean" -> Bool(doc.b)
    [] doc.t = "number" -> Num(doc.n)
    [] doc.t = "string" ->
         IF doc.chars.form = "raw" THEN Str(doc.chars.s)
         ELSE [kind |-> "string", s |-> "", chars |-> doc.chars]
    [] doc.t = "array" -> Arr([i \in DOMAIN doc.items |-> FromJson(doc.items[i])])
    [] doc.t = "object" ->
         Plain(MapFrom(DOMAIN doc.members,
                       [k \in DOMAIN doc.members |-> FromJson(doc.members[k])]))

\* the numbers whose digits JSON.parse is given here
ParsedNumbers == 0..99

JsonParse(chars) ==
  CASE chars.form = "json" -> Returned(FromJson(chars.doc))
    [] chars.form = "raw" ->
         IF chars.s = "true" THEN Returned(Bool(TRUE))
         ELSE IF chars.s = "false" THEN Returned(Bool(FALSE))
         ELSE IF chars.s = "null" THEN Returned(Null)
         ELSE IF \E n \in ParsedNumbers : Decimal(n) = chars.s
         THEN Returned(Num(CHOOSE n \in ParsedNumbers : Decimal(n) = chars.s))
         ELSE Raised
    [] OTHER -> Raised

----------------------------------------------------------------------------
(* The layout of a rendered text: the lines it starts after its first line, *)
(* each with the member it starts (a path of keys from the top) and the     *)
(* number of spaces it begins with.                                         *)

Line(at, indent) == [at |-> at, indent |-> indent]

\* the keys of the members of a JSON document; an array index is a key
MemberKeys(doc) ==
  CASE doc.t = "object" -> DOMAIN doc.members
    [] doc.t = "array" -> {Decimal(i - 1) : i \in DOMAIN doc.items}
    [] OTHER -> {}

Member(doc, k) ==
  IF doc.t = "object" THEN doc.members[k]
  ELSE doc.items[CHOOSE i \in DOMAIN doc.items : Decimal(i - 1) = k]

\* the gap JSON.stringify takes from its `space` argument
Gap(space) == IF space.kind = "number" THEN space.n ELSE 0

\* JSON.stringify with a gap puts every member of a non-empty composite on a
\* line of its own, indented by one gap per level, and the closing bracket on
\* a line indented as the composite is; without a gap it writes no line break
RECURSIVE JsonLines(_, _, _)
JsonLines(doc, gap, path) ==
  IF gap = 0 \/ MemberKeys(doc) = {}
  THEN {}
  ELSE UNION {{Line(path \o <<k>>, gap * (Len(path) + 1))}
                \cup JsonLines(Member(doc, k), gap, path \o <<k>>) : k \in MemberKeys(doc)}
         \cup {Line(path \o <<"}">>, gap * Len(path))}

\* util.inspect breaks lines at this width unless the options say otherwise,
\* and the options of the formatter do not
breakLength == 80

\* what util.inspect lists for a value: its own properties, accessors included
InspectKeys(v) ==
  CASE v.kind = "object" -> DOMAIN v.props \cup v.self \cup v.getters
    [] v.kind = "array" -> {Decimal(i - 1) : i \in DOMAIN v.items}
    [] OTHER -> {}

InspectMember(v, k) ==
  CASE v.kind = "array" -> v.items[CHOOSE i \in DOMAIN v.items : Decimal(i - 1) = k]
    [] k \in v.self -> Str("Circular *1")
    [] k \in v.getters -> Str("Getter")
    [] OTHER -> v.props[k]

RECURSIVE SumOver(_, _)
SumOver(K, f) ==
  IF K = {} THEN 0 ELSE LET k == CHOOSE x \in K : TRUE IN f[k] + SumOver(K \ {k}, f)

\* the width of the text util.inspect writes for a value when it is written
\* on one line: 'string', 42, [Circular *1], { a: 1, b: 2 }
RECURSIVE InspectWidth(_)
InspectWidth(v) ==
  CASE v.kind = "string" -> Len(v.s) + 2
    [] v.kind \in {"number", "bigint"} -> Len(Decimal(v.n))
    [] v.kind = "boolean" -> IF v.b THEN 4 ELSE 5
    [] v.kind = "null" -> 4
    [] v.kind \in {"object", "array"} ->
         LET K == InspectKeys(v)
             w == [k \in K |-> (IF v.kind = "object" THEN Len(k) + 2 ELSE 0)
                                  + InspectWidth(InspectMember(v, k))]
         IN IF K = {} THEN 2 ELSE 4 + SumOver(K, w) + 2 * (Cardinality(K) - 1)
    [] OTHER -> 9

\* the text of one entry of a composite: `key: value`, or `value` in an array
EntryWidth(v, k) ==
  (IF v.kind = "object" THEN Len(k) + 2 ELSE 0) + InspectWidth(InspectMember(v, k))

\* isBelowBreakLength of util.inspect: the entries fit on one line
isBelowBreakLength(v) ==
  LET K == InspectKeys(v)
  IN /\ 2 * Cardinality(K) <= breakLength
     /\ Cardinality(K) + SumOver(K, [k \in K |-> EntryWidth(v, k)]) <= breakLength

\* util.inspect(arg, this.inspectOptions).  With `compact: true` the entries
\* of a composite stay on one line while they fit in breakLength; otherwise
\* every entry after the first starts a line, and a value wider than
\* breakLength starts a line after its key.  With `compact: false` every
\* entry starts a line and so does the closing bracket.
RECURSIVE InspectLines(_, _, _, _)
InspectLines(v, compact, path, level) ==
  LET K == InspectKeys(v)
      first == CHOOSE k \in K : TRUE
      nested == UNION {InspectLines(InspectMember(v, k), compact, path \o <<k>>, level + 2)
                         : k \in K}
  IN IF K = {} THEN {}
     ELSE IF compact
     THEN (IF isBelowBreakLength(v) THEN {}
           ELSE {Line(path \o <<k>>, level + 2) : k \in K \ {first}})
            \cup {Line(path \o <<k, "value">>, level + 3) :
                    k \in {j \in K : InspectWidth(InspectMember(v, j)) > breakLength}}
            \cup nested
     ELSE {Line(path \o <<k>>, level + 2) : k \in K}
            \cup nested
            \cup {Line(path \o <<"}">>, level)}

\* the lines of a text that formatLogData returned (the primitives rendered
\* here have no line break of their own)
Layout(fmt, text) ==
  CASE text.via = "template" -> {}
    [] text.via = "json" ->
         JsonLines(Stringify(fmt, "", text.of), Gap(jsonStringifySpace(fmt)), <<>>)
    [] OTHER -> InspectLines(text.of, fmt = "compact", <<>>, 0)

----------------------------------------------------------------------------
(* src/lib/async-context.ts.  AsyncLocalStorage keeps one current store per *)
(* asynchronous execution: run(store, fn) makes `store` current while fn    *)
(* runs and puts the previous one back when fn returns or raises, and an    *)
(* asynchronous continuation created while a store is current starts with   *)
(* that store.                                                              *)

\* `storage` is not yet created; one execution with no store is running
NoStorage == [created |-> FALSE, objects |-> <<>>, frames |-> <<<<0>>>>, running |-> 1]

\* the stack of the running execution; its first entry is the store the
\* execution started with (0: none)
Stack == store.frames[store.running]

\* storage.getStore() of the running execution, as a reference (0: undefined)
getStore == Stack[Len(Stack)]

\* the value a reference to a context object stands for
ContextValue(st, ref) == IF ref = 0 THEN Undefined ELSE Plain(st.objects[ref])

\* getLogContext(): undefined while `storage` does not exist
getLogContext == IF store.created THEN ContextValue(store, getStore) ELSE Undefined

\* a variant that writes the new keys into the parent's own mapping
mergedContextInPlace(parentContext, logContext) ==
  [objects |-> IF parentContext = 0 THEN Append(store.objects, logContext)
               ELSE [store.objects EXCEPT ![parentContext] = Overlay(@, logContext)],
   ref |-> IF parentContext = 0 THEN Len(store.objects) + 1 ELSE parentContext]

\* a variant in which the parent's value wins over the new one
mergedContextParentWins(parentContext, logContext) ==
  [objects |-> Append(store.objects,
                      Overlay(logContext, IF parentContext = 0 THEN EmptyMap
                                          ELSE store.objects[parentContext])),
   ref |-> Len(store.objects) + 1]

\* a variant that starts the block with the given keys only
mergedContextFresh(parentContext, logContext) ==
  [objects |-> Append(store.objects, logContext), ref |-> Len(store.objects) + 1]

\* `const mergedContext = { ...(parentContext ?? {}), ...logContext }`: a new
\* object
mergedContext(parentContext, logContext) ==
  [objects |-> Append(store.objects,
                      Overlay(IF parentContext = 0 THEN EmptyMap
                              ELSE store.objects[parentContext], logContext)),
   ref |-> Len(store.objects) + 1]

\* runWithContext(logContext, handlerFn), up to the entry into handlerFn
RunWithContext(logContext) ==
  LET parentContext == IF store.created THEN getStore ELSE 0
      m == mergedContext(parentContext, logContext)
      st == [store EXCEPT !.created = TRUE, !.objects = m.objects,
                          !.frames[store.running] = Append(@, m.ref)]
  IN /\ Len(store.objects) < MaxContexts
     /\ store' = st
     /\ blocks' = IF m.ref > Len(blocks)
                  THEN Append(blocks, [parent |-> parentContext, partial |-> logContext,
                                       before |-> getLogContext, mutated |-> FALSE,
                                       mutatedAt |-> 0,
                                       replay |-> Overlay(IF parentContext = 0 THEN EmptyMap
                                                          ELSE blocks[parentContext].replay,
                                                          logContext)])
                  ELSE blocks
     /\ last' = [op |-> "runWithContext", execution |-> store.running,
                 parent |-> parentContext, partial |-> logContext,
                 before |-> getLogContext, ref |-> m.ref,
                 context |-> ContextValue(st, m.ref)]
     /\ UNCHANGED <<env, heap, loggers, derived>>

\* a variant that puts the previous store back only when handlerFn returns
CompleteOnReturn(outcome) ==
  LET top == Len(Stack)
      st == IF outcome.raised
            THEN [store EXCEPT !.frames[store.running] =
                                 Append(SubSeq(@, 1, top - 2), @[top])]
            ELSE [store EXCEPT !.frames[store.running] = SubSeq(@, 1, top - 1)]
  IN /\ top > 1
     /\ store' = st
     /\ last' = [op |-> "complete", execution |-> store.running, block |-> getStore,
                 body |-> outcome, result |-> outcome,
                 context |-> ContextValue(st, st.frames[st.running][top - 1])]
     /\ UNCHANGED <<env, heap, loggers, derived, blocks>>

\* handlerFn returns or raises: contextStore.run restores the previous store
\* and runWithContext completes the way handlerFn did
Complete(outcome) ==
  LET st == [store EXCEPT !.frames[store.running] = SubSeq(@, 1, Len(@) - 1)]
      prev == st.frames[st.running][Len(Stack) - 1]
  IN /\ Len(Stack) > 1
     /\ store' = st
     /\ last' = [op |-> "complete", execution |-> store.running, block |-> getStore,
                 body |-> outcome, result |-> outcome,
                 context |-> ContextValue(st, prev)]
     /\ UNCHANGED <<env, heap, loggers, derived, blocks>>

\* an asynchronous continuation (an awaited promise, a timer, a callback) is
\* created in the running execution: it starts with the current store
Continuation ==
  /\ Len(store.frames) < MaxExecutions
  /\ store' = [store EXCEPT !.frames = Append(@, <<getStore>>)]
  /\ last' = [op |-> "continuation", execution |-> store.running,
              made |-> Len(store.frames) + 1]
  /\ UNCHANGED <<env, heap, loggers, derived, blocks>>

\* the running execution has returned to the event loop, which runs another
Resume(x) ==
  /\ Len(Stack) = 1
  /\ x # store.running
  /\ store' = [store EXCEPT !.running = x]
  /\ last' = [op |-> "resume", execution |-> x]
  /\ UNCHANGED <<env, heap, loggers, derived, blocks>>

\* a variant that replaces the active mapping by the additions
MutateContextScopeReplacing(additionalScope) ==
  LET currentContext == IF store.created THEN getStore ELSE 0
      st == IF currentContext = 0 THEN store
            ELSE [store EXCEPT !.objects[currentContext] = additionalScope]
  IN /\ store' = st
     /\ blocks' = IF currentContext = 0 THEN blocks
                  ELSE [blocks EXCEPT ![currentContext].replay = Overlay(@, additionalScope),
                                      ![currentContext].mutated = TRUE,
                                      ![currentContext].mutatedAt =
                                         IF @ = 0 THEN Len(store.objects) ELSE @]
     /\ last' = [op |-> "mutateContextScope", execution |-> store.running,
                 ref |-> currentContext, additions |-> additionalScope,
                 outcome |-> "returned", before |-> getLogContext,
                 context |-> ContextValue(st, currentContext)]
     /\ UNCHANGED <<env, heap, loggers, derived>>

\* a variant that, with no context active, keeps the additions for the next
\* block of the execution
MutateContextScopeKeeping(additionalScope) ==
  LET currentContext == IF store.created THEN getStore ELSE 0
      st == IF currentContext = 0
            THEN [store EXCEPT !.created = TRUE, !.objects = Append(@, additionalScope),
                               !.frames[store.running][Len(Stack)] = Len(store.objects) + 1]
            ELSE [store EXCEPT !.objects[currentContext] = Overlay(@, additionalScope)]
  IN /\ currentContext = 0 => Len(store.objects) < MaxContexts
     /\ store' = st
     /\ blocks' = IF currentContext = 0
                  THEN Append(blocks, [parent |-> 0, partial |-> EmptyMap,
                                       before |-> Undefined, mutated |-> TRUE,
                                       mutatedAt |-> Len(store.objects) + 1,
                                       replay |-> additionalScope])
                  ELSE [blocks EXCEPT ![currentContext].replay = Overlay(@, additionalScope),
                                      ![currentContext].mutated = TRUE,
                                      ![currentContext].mutatedAt =
                                         IF @ = 0 THEN Len(store.objects) ELSE @]
     /\ last' = [op |-> "mutateContextScope", execution |-> store.running,
                 ref |-> currentContext, additions |-> additionalScope,
                 outcome |-> "returned", before |-> getLogContext,
                 context |-> ContextValue(st, currentContext)]
     /\ UNCHANGED <<env, heap, loggers, derived>>

\* mutateContextScope(additionalScope)
MutateContextScope(additionalScope) ==
  LET currentContext == IF store.created THEN getStore ELSE 0
      st == IF currentContext = 0 THEN store
            ELSE [store EXCEPT !.objects[currentContext] = Overlay(@, additionalScope)]
  IN /\ store' = st
     /\ blocks' = IF currentContext = 0 THEN blocks
                  ELSE [blocks EXCEPT ![currentContext].replay = Overlay(@, additionalScope),
                                      ![currentContext].mutated = TRUE,
                                      ![currentContext].mutatedAt =
                                         IF @ = 0 THEN Len(store.objects) ELSE @]
     /\ last' = [op |-> "mutateContextScope", execution |-> store.running,
                 ref |-> currentContext, additions |-> additionalScope,
                 outcome |-> "returned", before |-> getLogContext,
                 context |-> ContextValue(st, currentContext)]
     /\ UNCHANGED <<env, heap, loggers, derived>>

\* a call of getLogContext() by the running execution
GetLogContext ==
  /\ last' = [op |-> "getLogContext", execution |-> store.running,
              ref |-> IF store.created THEN getStore ELSE 0, context |-> getLogContext]
  /\ UNCHANGED <<env, heap, loggers, derived, store, blocks>>

\* The caller writes keys into an object it holds: the object getLogContext()
\* returned (`return storage.getStore()`: the store's own object), the context
\* of the record just emitted (`logData.context = logContext`: the object the
\* accessor returned, here the current store), or the logContext object it
\* passed to runWithContext (spread into a new object, so not in the store:
\* reference 0)
CallerWrites(target, written) ==
  LET ref == CASE target = "returned" -> last.ref
               [] target = "record" -> getStore
               [] OTHER -> 0
      st == IF ref = 0 THEN store
            ELSE [store EXCEPT !.objects[ref] = Overlay(@, written)]
  IN /\ CASE target = "returned" -> last.op = "getLogContext" /\ last.ref # 0
          [] target = "record" ->
               last.op = "log" /\ last.outcome = "emitted" /\ "context" \in DOMAIN last.record
          [] OTHER -> last.op = "runWithContext"
     /\ store' = st
     /\ last' = [op |-> "write", target |-> target, ref |-> ref, written |-> written,
                 before |-> getLogContext, after |-> ContextValue(st, getStore)]
     /\ UNCHANGED <<env, heap, loggers, derived, blocks>>

----------------------------------------------------------------------------
(* Logger *)

\* Logger.constructor: resolve config.logLevel, keep the rest of the config
Logger(config) ==
  LET logLevel ==
        IF Truthy(config.logLevel)
        THEN IF TypeOf(config.logLevel) = "number"
             THEN config.logLevel
             ELSE IF TypeOf(config.logLevel) = "string" /\ InLogLevel(config.logLevel.s)
                  THEN LogLevelLookup(config.logLevel.s)
                  ELSE Num(LogLevel("debug"))
        ELSE Num(LogLevel("debug"))
  IN [config EXCEPT !.logLevel = logLevel]

\* the mapping a scope reference stands for when it is spread: `...undefined`
\* contributes nothing
ScopeMap(h, scope) == IF scope = 0 THEN EmptyMap ELSE h[scope]

\* Object.assign(target, source) on the object at `target`
ObjectAssign(h, target, source) == [h EXCEPT ![target] = Overlay(h[target], source)]

\* a variant that builds the record's data in the scope object itself
dataToAddInPlace(h, scope) ==
  IF scope = 0
  THEN [ref |-> Len(h) + 1, heap |-> Append(h, EmptyMap)]
  ELSE [ref |-> scope, heap |-> Append(h, EmptyMap)]

\* `const dataToAdd = { ...scope }`: a fresh object holding a copy of the scope
dataToAdd(h, scope) ==
  [ref |-> Len(h) + 1, heap |-> Append(h, ScopeMap(h, scope))]

\* `logData[key] = value`: a new key goes after the keys the object has
SetKey(logData, key, value) ==
  (key :> value) @@ [logData EXCEPT !.order = Append(@, key)]

\* a variant that sets the field whatever the accessor returned
attachContextAlways(logData, logContext) == SetKey(logData, "context", logContext)

\* `if (logContext) { logData.context = logContext; }`
attachContext(logData, logContext) ==
  IF Truthy(logContext) THEN SetKey(logData, "context", logContext) ELSE logData

\* Logger.getLogData; `h` is the heap during the call.  `order` lists the keys
\* of the record in the order they were set
getLogData(h, cfg, level, message, data, scope, formatter) ==
  LET base == [kind |-> "logData", level |-> level, message |-> message,
               order |-> <<"level", "message">>]
      logContext == IF cfg.getLogContext THEN getLogContext ELSE Undefined
      withContext == attachContext(base, logContext)
  IN IF Truthy(data) \/ scope # 0
     THEN LET d == dataToAdd(h, scope)
              source == IF data.kind = "error" THEN formatError(formatter, "", data)
                        ELSE IF isObject(data)
                        THEN IF ReadingRaises(data) THEN Raised ELSE Returned(OwnProps(data))
                        ELSE Returned("data" :> data)
          IN IF source.raised
             THEN [raised |-> TRUE, heap |-> d.heap, logData |-> withContext]
             ELSE LET h2 == ObjectAssign(d.heap, d.ref, source.value)
                  IN [raised |-> FALSE, heap |-> h2,
                      logData |-> SetKey(withContext, "data", Plain(h2[d.ref]))]
     ELSE [raised |-> FALSE, heap |-> h, logData |-> withContext]

NoOp == [op |-> "none"]

\* Logger.log, entered through debug/info/warn/error/fatal
Log(l, method, message, data) ==
  LET cfg == loggers[l]
      verbosity == LogLevel(method)
      \* the caller's data object, seen by the caller after the call
      arg == Len(heap) + 1
      h0 == Append(heap, OwnProps(data))
      res == getLogData(h0, cfg, verbosity, message, data, cfg.scope, cfg.formatter)
      text == formatLogData(cfg.formatter, res.logData)
      call == [op |-> "log", logger |-> l, method |-> method, level |-> verbosity,
               message |-> message, data |-> data]
  IN /\ UNCHANGED <<env, loggers, derived, store, blocks>>
     /\ IF JsLessThan(verbosity, cfg.logLevel)
        THEN /\ heap' = heap
             /\ last' = call @@ [outcome |-> "suppressed", console |-> <<>>,
                                transport |-> <<>>, dataAfter |-> OwnProps(data)]
        ELSE IF res.raised \/ text.raised
        THEN /\ heap' = SubSeq(res.heap, 1, Len(heap))
             /\ last' = call @@ [outcome |-> "raised", console |-> <<>>,
                                transport |-> <<>>, dataAfter |-> res.heap[arg]]
        ELSE /\ heap' = SubSeq(res.heap, 1, Len(heap))
             /\ last' = call @@ [outcome |-> "emitted", record |-> res.logData,
                                console |-> <<text.value>>, transport |-> <<>>,
                                dataAfter |-> res.heap[arg]]

\* Logger.silent
Silent(l) ==
  /\ last' = [op |-> "silent", logger |-> l, console |-> <<>>, transport |-> <<>>]
  /\ UNCHANGED <<env, heap, loggers, derived, store, blocks>>

\* Logger.child
Child(l, scope) ==
  LET cfg == loggers[l]
      childScope == Overlay(ScopeMap(heap, cfg.scope), scope)
      ref == Len(heap) + 1
  IN /\ Len(loggers) < MaxLoggers
     /\ heap' = Append(heap, childScope)
     /\ loggers' = Append(loggers, Logger([cfg EXCEPT !.scope = ref]))
     /\ derived' = Append(derived, [parent |-> l, additions |-> scope,
                                    given |-> [cfg EXCEPT !.scope = ref],
                                    scope |-> childScope])
     /\ last' = [op |-> "child", logger |-> l, made |-> Len(loggers) + 1]
     /\ UNCHANGED <<env, store, blocks>>

----------------------------------------------------------------------------
(* Inputs *)

\* config.logLevel: absent, enum values, other numbers, names, other strings
LevelInputs ==
  {Undefined, Num(10), Num(30), Num(100), Num(25), Num(0),
   Str("warn"), Str("silent"), Str("WARN"), Str("bogus"), Str(""),
   Str("10"), Str("100"), Str("toString")}

\* process.env.LOG_LEVEL: unset, a name, something else, empty
EnvInputs == {Undefined, Str("warn"), Str("invalid"), Str("")}

\* config.scope: absent or a mapping
ScopeInputs ==
  {Undefined, Plain(EmptyMap), Plain(Map1("a", Num(1))),
   Plain(Map2("a", Num(1), "b", Num(2))), Plain(Map1("data", Num(1)))}

\* the argument of child()
AdditionInputs ==
  {EmptyMap, Map1("b", Num(2)), Map1("a", Num(9)), Map2("b", Num(3), "c", Num(4))}

PlainError == Err("boom", EmptyMap, Undefined)

\* the `data` argument of a log call
DataInputs ==
  {Undefined, Null, Str("x"), Str(""), Num(7), Num(0), Bool(TRUE), Bool(FALSE),
   Arr(<<>>), Arr(<<Num(1)>>),
   Plain(EmptyMap), Plain(Map2("b", Num(3), "c", Num(4))), Plain(Map1("data", Num(5))),
   Obj(Map1("a", Num(2)), {"self"}, {}),
   Obj(Map1("a", Num(2)), {}, {"bad"}),
   PlainError,
   Err("boom", Map1("code", Str("E1")), Undefined),
   Err("boom", EmptyMap, PlainError),
   Err("boom", EmptyMap, Str("why")),
   Err("boom", Map1("tag", Symbol), Undefined)}

Formatters == {"json", "pretty"}
Transports == {"console", "custom"}

InitOf(Levels, Envs, Scopes, Fmts, Sinks, Accessors) ==
  \E lv \in Levels, e \in Envs, sc \in Scopes, f \in Fmts, t \in Sinks, g \in Accessors :
    LET config == [scope |-> IF sc = Undefined THEN 0 ELSE 1, logLevel |-> lv,
                   formatter |-> f, transport |-> t, getLogContext |-> g]
    IN /\ env = e
       /\ heap = IF sc = Undefined THEN <<>> ELSE <<sc.props>>
       /\ loggers = <<Logger(config)>>
       /\ derived = <<[parent |-> 0, additions |-> EmptyMap, given |-> config,
                        scope |-> IF sc = Undefined THEN EmptyMap ELSE sc.props]>>
       /\ store = NoStorage
       /\ blocks = <<>>
       /\ last = NoOp

NextOf(Data, Additions) ==
  \/ \E l \in 1..Len(loggers), m \in LogMethods, d \in Data : Log(l, m, "msg", d)
  \/ \E l \in 1..Len(loggers) : Silent(l)
  \/ \E l \in 1..Len(loggers), a \in Additions : Child(l, a)

\* thresholds and the environment in full, a small choice of data
Init == InitOf(LevelInputs, EnvInputs, {Plain(Map1("a", Num(1)))},
               {"json"}, {"custom"}, {FALSE})
FewData == {Undefined, Plain(Map1("b", Num(3)))}
OneAddition == {Map1("b", Num(2))}
Next == NextOf(FewData, OneAddition)
Spec == Init /\ [][Next]_vars

\* scopes and call-site data in full, one threshold
InitData == InitOf({Num(30)}, {Undefined},
                   {Undefined, Plain(Map2("a", Num(1), "b", Num(2))), Plain(Map1("data", Num(1)))},
                   Formatters, {"console"}, {FALSE})
NextData == NextOf(DataInputs, OneAddition)
SpecData == InitData /\ [][NextData]_vars

\* chains of children with colliding keys, logging in between
InitFrame == InitOf({Undefined}, {Undefined}, {Undefined, Plain(Map1("a", Num(1)))},
                    {"json"}, {"console"}, {FALSE})
FrameData ==
  {Undefined, Str("x"), Plain(Map2("a", Num(7), "c", Num(4))),
   Obj(Map1("b", Num(2)), {"self"}, {}), PlainError}
FrameAdditions == {Map1("a", Num(9)), Map2("b", Num(3), "c", Num(4))}
NextFrame == NextOf(FrameData, FrameAdditions)
SpecFrame == InitFrame /\ [][NextFrame]_vars

\* the partial contexts given to runWithContext, the additions given to
\* mutateContextScope
ContextInputs ==
  {Map2("requestId", Str("r1"), "jobId", Str("j1")), Map1("requestId", Str("r2"))}
MutationInputs == {Map2("userId", Str("u1"), "requestId", Str("r9"))}
BodyOutcomes == {Returned(Num(1)), Raised}

\* blocks, continuations and mutations interleaved with log calls
InitContext == InitOf({Undefined}, {Undefined}, {Plain(Map1("a", Num(1)))},
                      {"json"}, {"console"}, {TRUE})
NextContext ==
  \/ \E c \in ContextInputs : RunWithContext(c)
  \/ \E o \in BodyOutcomes : Complete(o)
  \/ Continuation
  \/ \E x \in 1..Len(store.frames) : Resume(x)
  \/ \E a \in MutationInputs : MutateContextScope(a)
  \/ GetLogContext
  \/ Log(1, "info", "msg", Undefined)
SpecContext == InitContext /\ [][NextContext]_vars

\* a caller that writes into the objects the context store handed out or was
\* handed
WriteTargets == {"returned", "record", "partial"}
WrittenInputs == {Map1("requestId", Str("forged")), Map1("admin", Str("yes"))}
InitAlias == InitOf({Undefined}, {Undefined}, {Plain(Map1("a", Num(1)))},
                    {"json"}, {"console"}, {TRUE})
NextAlias ==
  \/ \E c \in ContextInputs : RunWithContext(c)
  \/ \E o \in BodyOutcomes : Complete(o)
  \/ GetLogContext
  \/ Log(1, "info", "msg", Undefined)
  \/ \E t \in WriteTargets, w \in WrittenInputs : CallerWrites(t, w)
SpecAlias == InitAlias /\ [][NextAlias]_vars

\* one execution: records assembled inside and outside blocks, with and
\* without a configured accessor
InitRecord == InitOf({Undefined}, {Undefined}, {Undefined, Plain(Map1("a", Num(1)))},
                     {"json"}, {"console"}, BOOLEAN)
RecordData ==
  {Undefined, Str("x"), Plain(Map1("requestId", Str("mine"))),
   Obj(Map1("b", Num(2)), {"self"}, {}),
   Obj(Map1("b", Num(2)), {}, {"bad"}),
   Plain(Map1("inner", Obj(Map1("b", Num(2)), {}, {"bad"})))}
RecordContexts == ContextInputs \cup {EmptyMap}
NextRecord ==
  \/ \E c \in RecordContexts : RunWithContext(c)
  \/ \E o \in BodyOutcomes : Complete(o)
  \/ \E a \in MutationInputs : MutateContextScope(a)
  \/ \E d \in RecordData : Log(1, "error", "msg", d)
SpecRecord == InitRecord /\ [][NextRecord]_vars

\* the render operation on its own: JsonLogFormatter.formatLogData (and the
\* PrettyLogFormatter override) applied to one value
Primitives ==
  {Str("x"), Str(""), Num(7), Num(0), Bool(TRUE), Bool(FALSE), Null, Undefined,
   BigInt(5), Symbol, Function}

\* composites that hold an error at a key, at the top or further down
CustomError ==
  ErrWithToJSON("boom", EmptyMap, Undefined, Returned(Plain(Map1("code", Num(7)))))
ErrorMembers ==
  {Plain(Map2("n", Num(1), "err", Err("boom", Map1("code", Str("E1")), Undefined))),
   Plain(Map1("outer", Plain(Map1("err", PlainError)))),
   Plain(Map1("outer", Arr(<<Num(1), PlainError>>))),
   Arr(<<PlainError>>),
   Plain(Map1("err", Err("boom", EmptyMap, PlainError))),
   Plain(Map1("err", CustomError)),
   Plain(Map1("outer", Plain(Map1("err", CustomError))))}

FormatInputs ==
  Primitives
    \cup {Plain(Map1("k", v)) : v \in Primitives \cup {Promise, RegExp, PlainError}}
    \cup {Arr(<<v>>) : v \in Primitives}
    \cup {Arr(<<>>), Plain(EmptyMap), Promise, RegExp,
          Obj(Map1("name", Str("circular")), {"self"}, {}),
          Obj(Map1("normal", Str("value")), {}, {"problematic"}),
          PlainError,
          Err("boom", Map1("code", Str("E1")), Undefined),
          Err("boom", Map1("tag", Symbol), Undefined),
          Err("boom", EmptyMap, PlainError),
          Err("boom", EmptyMap, Str("why"))}
    \cup ErrorMembers

Format ==
  /\ last.op = "input"
  /\ last' = [op |-> "formatLogData", formatter |-> last.formatter, arg |-> last.arg,
              result |-> formatLogData(last.formatter, last.arg)]
  /\ UNCHANGED <<env, heap, loggers, derived, store, blocks>>

InitFormat ==
  /\ env = Undefined
  /\ heap = <<>>
  /\ loggers = <<>>
  /\ derived = <<>>
  /\ store = NoStorage
  /\ blocks = <<>>
  /\ \E f \in Formatters, v \in FormatInputs : last = [op |-> "input", formatter |-> f, arg |-> v]
NextFormat == Format
SpecFormat == InitFormat /\ [][NextFormat]_vars

\* values that JSON can represent, with bigint and undefined members
JsonLeaves ==
  {Str("x"), Str("7"), Str(""), Num(7), Num(0), Num(42), Bool(TRUE), Bool(FALSE), Null}
JsonMembers == JsonLeaves \cup {BigInt(5), Undefined}
RenderInputs ==
  JsonLeaves
    \cup {Plain(EmptyMap), Arr(<<>>)}
    \cup {Plain(Map1("k", m)) : m \in JsonMembers}
    \cup {Arr(<<m, Num(1)>>) : m \in JsonMembers}
    \cup {Plain(Map2("k", Num(1), "n", Plain(Map1("inner", m)))) : m \in JsonMembers}
    \cup {Arr(<<Plain(Map1("k", m))>>) : m \in JsonMembers}

\* formatLogData of the JSON formatter, compact or not, on such values
InitRender ==
  /\ env = Undefined
  /\ heap = <<>>
  /\ loggers = <<>>
  /\ derived = <<>>
  /\ store = NoStorage
  /\ blocks = <<>>
  /\ \E f \in {"json", "compact"}, v \in RenderInputs :
       last = [op |-> "input", formatter |-> f, arg |-> v]
NextRender == Format
SpecRender == InitRender /\ [][NextRender]_vars

\* errors given to errorToObject: plain, with own properties, with a cause,
\* with a toJSON method
RootError == Err("root", EmptyMap, Undefined)
MiddleError == Err("middle", Map1("code", Str("E2")), RootError)
CauseInputs ==
  {Undefined, PlainError, Str("why"), Num(0), Bool(FALSE), Str(""), Null,
   MiddleError, Err("upper", Map1("name", Str("TypeError")), MiddleError),
   Err("middle", EmptyMap, Str("why"))}
ToJsonResults ==
  {Plain(Map2("name", Str("CustomError"), "message", Str("custom error"))),
   Plain(Map1("code", Num(7))),
   Plain(Map2("code", Num(7), "cause", Str("redacted"))),
   Plain(EmptyMap), Null}
ErrorProps ==
  {EmptyMap, Map1("code", Str("E1")), Map2("code", Num(7), "name", Str("own")),
   Map1("detail", Plain(Map1("k", Num(1)))), Map1("tag", Symbol),
   Map2("stack", Str("mine"), "message", Str("shown")),
   Map2("code", Str("E1"), "toString", Str("shadow"))}
InheritedProps == {Map1("retryable", Bool(TRUE)), Map2("code", Str("E0"), "kind", Str("db"))}
ErrorInputs ==
  {ErrInheriting("boom", p, i) : p \in ErrorProps, i \in InheritedProps} \cup
  {Err("boom", p, c) :
     p \in ErrorProps, c \in CauseInputs}
    \cup {ErrWithToJSON("boom", p, c, Returned(j)) :
            p \in {EmptyMap, Map1("code", Str("E1"))}, c \in CauseInputs, j \in ToJsonResults}

\* errorToObject(error, formatter)
ErrorToObject ==
  /\ last.op = "error"
  /\ last' = [op |-> "errorToObject", formatter |-> last.formatter, error |-> last.error,
              result |-> errorToObject(last.error, last.formatter)]
  /\ UNCHANGED <<env, heap, loggers, derived, store, blocks>>

InitError ==
  /\ env = Undefined
  /\ heap = <<>>
  /\ loggers = <<>>
  /\ derived = <<>>
  /\ store = NoStorage
  /\ blocks = <<>>
  /\ \E f \in {"json", "compact"}, e \in ErrorInputs :
       last = [op |-> "error", formatter |-> f, error |-> e]
NextError == ErrorToObject
SpecError == InitError /\ [][NextError]_vars

\* values that the JSON walk renders and values that fall back to inspect,
\* short ones and ones wider than a line
LongString == Str("0123456789012345678901234567890123456789012345678901234567890123456789")
LayoutInputs ==
  RenderInputs
    \cup {Obj(Map1("name", Str("test")), {"self"}, {}),
          Obj(Map1("normal", Str("value")), {}, {"problematic"}),
          Obj(Map2("name", Str("test"), "detail", LongString), {"self"}, {}),
          Obj(Map1("detail", LongString), {}, {"problematic"}),
          Obj(Map1("inner", Obj(Map1("name", Str("test")), {"self"}, {})), {}, {}),
          Plain(Map2("name", Str("test"), "detail", LongString)),
          Arr(<<LongString, LongString>>)}

\* formatLogData of the JSON formatter, compact or not, on these values
InitLayout ==
  /\ env = Undefined
  /\ heap = <<>>
  /\ loggers = <<>>
  /\ derived = <<>>
  /\ store = NoStorage
  /\ blocks = <<>>
  /\ \E f \in {"json", "compact"}, v \in LayoutInputs :
       last = [op |-> "input", formatter |-> f, arg |-> v]
NextLayout == Format
SpecLayout == InitLayout /\ [][NextLayout]_vars

\* errorToObject call by call, on error objects that refer to each other
\* through `cause`: heap[ref].cause is a reference, 0 when the error has no
\* cause, and a chain of causes may lead back to an error it came from.  Each
\* call is a frame; the engine's call stack has room for MaxStack of them and
\* the call that does not fit raises a RangeError.
ErrorAt(ref, cause) ==
  [kind |-> "error", message |-> "e" \o Decimal(ref), cause |-> cause]

RECURSIVE ErrorsFrom(_, _)
ErrorsFrom(n, causes) ==
  IF n = 0 THEN <<>> ELSE Append(ErrorsFrom(n - 1, causes), ErrorAt(n, causes[n]))

ChainHeaps ==
  UNION {{ErrorsFrom(n, causes) : causes \in [1..n -> 0..n]} : n \in 1..MaxErrors}

\* a variant with a cycle guard: a cause that is being converted is left out
hasUnvisitedCause(h, frames) ==
  /\ h[frames[Len(frames)]].cause # 0
  /\ \A i \in DOMAIN frames : frames[i] # h[frames[Len(frames)]].cause

\* `if (error.cause)` and `error.cause instanceof Error` for the error of the
\* innermost call
hasErrorCause(h, frames) == h[frames[Len(frames)]].cause # 0

\* errorToObject(error, formatter) is called from outside
EnterErrorToObject ==
  /\ last.op = "input"
  /\ last' = [op |-> "errorToObject", start |-> last.start, frames |-> <<last.start>>,
              calls |-> 1, returning |-> FALSE, outcome |-> "running",
              value |-> Undefined]
  /\ UNCHANGED <<env, heap, loggers, derived, store, blocks>>

\* `errObject.cause = errorToObject(error.cause, formatter)`: the call
RecurseIntoCause ==
  /\ last.op = "errorToObject"
  /\ last.outcome = "running"
  /\ ~last.returning
  /\ hasErrorCause(heap, last.frames)
  /\ Len(last.frames) < MaxStack
  /\ last' = [last EXCEPT !.frames = Append(@, heap[@[Len(@)]].cause),
                          !.calls = @ + 1]
  /\ UNCHANGED <<env, heap, loggers, derived, store, blocks>>

\* the same call when the call stack is full: a RangeError unwinds every frame
StackExhausted ==
  /\ last.op = "errorToObject"
  /\ last.outcome = "running"
  /\ ~last.returning
  /\ hasErrorCause(heap, last.frames)
  /\ Len(last.frames) = MaxStack
  /\ last' = [last EXCEPT !.frames = <<>>, !.outcome = "raised"]
  /\ UNCHANGED <<env, heap, loggers, derived, store, blocks>>

\* `return errObject`: the mapping of the innermost call, with the mapping
\* that the call for its cause returned under `cause`
ReturnMapping ==
  /\ last.op = "errorToObject"
  /\ last.outcome = "running"
  /\ last.returning \/ ~hasErrorCause(heap, last.frames)
  /\ LET error == heap[last.frames[Len(last.frames)]]
         errObject == [name |-> Str("Error"), message |-> Str(error.message),
                       stack |-> Str("stack")]
     IN last' = [last EXCEPT
                   !.value = IF last.returning
                             THEN Plain(Overlay(errObject, "cause" :> last.value))
                             ELSE Plain(errObject),
                   !.frames = SubSeq(@, 1, Len(@) - 1),
                   !.returning = TRUE,
                   !.outcome = IF Len(last.frames) = 1 THEN "returned" ELSE "running"]
  /\ UNCHANGED <<env, heap, loggers, derived, store, blocks>>

InitChain ==
  /\ env = Undefined
  /\ heap \in ChainHeaps
  /\ loggers = <<>>
  /\ derived = <<>>
  /\ store = NoStorage
  /\ blocks = <<>>
  /\ \E e \in 1..Len(heap) :
       last = [op |-> "input", start |-> e, frames |-> <<>>, calls |-> 0,
               returning |-> FALSE, outcome |-> "none", value |-> Undefined]
NextChain ==
  \/ EnterErrorToObject
  \/ RecurseIntoCause
  \/ StackExhausted
  \/ ReturnMapping
\* a call that has started runs until it returns or raises
SpecChain == InitChain /\ [][NextChain]_vars /\ WF_vars(NextChain)

----------------------------------------------------------------------------
(* Properties *)

IsLog == last.op = "log"
Emitted == IsLog /\ last.outcome = "emitted"
\* the last call produced output somewhere
Wrote == Len(last.console) + Len(last.transport) > 0
Threshold(l) == loggers[l].logLevel
ScopeOf(l) == ScopeMap(heap, loggers[l].scope)
Roots == {l \in 1..Len(loggers) : derived[l].parent = 0}

\* severity s is at or above threshold T; a threshold held as a severity name
\* is read as that severity
AtOrAbove(s, T) ==
  CASE T.kind = "number" -> s >= T.n
    [] T.kind = "string" /\ T.s \in LogLevelNames -> s >= LogLevel(T.s)
    [] OTHER -> FALSE

\* C1: a call of severity s on a Logger with threshold T produces an emission
\* exactly when s >= T; silent() never produces an emission, and a Logger
\* whose threshold is silent emits nothing
C1_SeverityFiltering ==
  /\ IsLog => (Wrote <=> AtOrAbove(last.level, Threshold(last.logger)))
  /\ last.op = "silent" => ~Wrote

\* C2: an emitted call hands exactly one text, the one the configured formatter
\* returns for the record, to the writeLog of the configured transport and
\* writes nowhere else; a suppressed call hands it nothing
C2_OneTextToSink ==
  IsLog =>
    /\ last.outcome = "emitted" =>
          /\ last.transport =
               <<formatLogData(loggers[last.logger].formatter, last.record).value>>
          /\ last.console = <<>>
    /\ last.outcome = "suppressed" => last.transport = <<>>

\* the data values claim C3 lists: absent, primitives, arrays, plain and cyclic
\* objects, Errors with extra own properties or with a cause
ListedData(d) ==
  /\ d.kind \in {"undefined", "null", "string", "number", "boolean", "array",
                 "object", "error"}
  /\ d.kind = "object" => d.getters = {}
  /\ d.kind = "error" => \A k \in DOMAIN d.props : d.props[k].kind = "string"

\* C3: no debug/info/warn/error/fatal call raises to its caller, for any listed
\* data value and under both formatters
C3_NeverRaises == (IsLog /\ ListedData(last.data)) => last.outcome # "raised"

\* C4: JsonLogFormatter.formatLogData returns a text and never raises, for
\* every primitive and every composite
C4_RenderNeverRaises ==
  (last.op = "formatLogData" /\ last.formatter = "json") =>
    (~last.result.raised /\ TypeOf(last.result.value) = "string")

\* the Severity a logLevel input should resolve to: an enum value or a
\* severity name gives that Severity, anything else gives debug
ExpectedThreshold(input) ==
  IF input.kind = "number" /\ input.n \in Severities THEN input.n
  ELSE IF input.kind = "string" /\ input.s \in LogLevelNames THEN LogLevel(input.s)
  ELSE LogLevel("debug")

\* C5: every logLevel input resolves to exactly one Severity: a recognized
\* enum value or name to that Severity, everything else to debug
C5_ThresholdResolution ==
  \A l \in Roots : Threshold(l) = Num(ExpectedThreshold(derived[l].given.logLevel))

\* the threshold with the environment as fallback
ExpectedWithEnv(input, e) ==
  IF input # Undefined THEN ExpectedThreshold(input)
  ELSE IF e.kind = "string" /\ e.s \in LogLevelNames THEN LogLevel(e.s)
  ELSE LogLevel("debug")

\* C6: with no explicit logLevel a recognized LOG_LEVEL name is the threshold
\* (LOG_LEVEL=warn suppresses debug and info and emits warn) and anything else
\* gives debug; a recognized explicit logLevel wins over LOG_LEVEL
C6_EnvFallback ==
  \A l \in Roots :
    LET input == derived[l].given.logLevel
        expected == ExpectedWithEnv(input, env)
    IN (input = Undefined \/ ExpectedThreshold(input) # LogLevel("debug")) =>
         /\ Threshold(l) = Num(expected)
         /\ (IsLog /\ last.logger = l) => (Wrote <=> last.level >= expected)

\* what the call-site data contributes to the record's data, by kind
CallSiteMapping(data, fmt) ==
  IF data = Undefined THEN EmptyMap
  ELSE IF data.kind = "error" THEN formatError(fmt, "", data).value
  ELSE IF data.kind = "object" THEN OwnProps(data)
  ELSE Map1("data", data)

\* C7: in every emitted record, each scope key keeps its scope value unless the
\* call-site data has that key, and then it has the call-site value
C7_ScopeThenData ==
  (Emitted /\ derived[last.logger].scope # EmptyMap) =>
    /\ "data" \in DOMAIN last.record
    /\ LET rd == last.record.data.props
           S == derived[last.logger].scope
           src == CallSiteMapping(last.data, loggers[last.logger].formatter)
       IN \A k \in DOMAIN S :
            /\ k \in DOMAIN rd
            /\ rd[k] = IF k \in DOMAIN src THEN src[k] ELSE S[k]

\* the supplied data values claim C8 lists
SuppliedData(d) ==
  /\ d.kind \in {"null", "string", "number", "boolean", "array", "object", "error"}
  /\ d.kind = "object" => d.getters = {}

\* C8: supplied call-site data is placed by its kind: an Error through
\* formatError, a plain object by its own keys, anything else under `data`
C8_DataByKind ==
  (Emitted /\ SuppliedData(last.data)) =>
    /\ "data" \in DOMAIN last.record
    /\ last.record.data.props =
         Overlay(ScopeOf(last.logger),
                 CallSiteMapping(last.data, loggers[last.logger].formatter))

RECURSIVE RootOf(_)
RootOf(l) == IF derived[l].parent = 0 THEN l ELSE RootOf(derived[l].parent)

\* C9: a child's scope is its parent's scope overlaid by the additions, and
\* its threshold, formatter, transport and context accessor are the root's,
\* so it filters as the root does
C9_ChildDerivation ==
  \A l \in 1..Len(loggers) :
    derived[l].parent # 0 =>
      LET S == ScopeOf(l)
          P == ScopeOf(derived[l].parent)
          A == derived[l].additions
          root == loggers[RootOf(l)]
      IN /\ loggers[l].scope # 0
         /\ DOMAIN S = (DOMAIN P) \cup (DOMAIN A)
         /\ \A k \in DOMAIN S : S[k] = IF k \in DOMAIN A THEN A[k] ELSE P[k]
         /\ loggers[l].logLevel = root.logLevel
         /\ loggers[l].formatter = root.formatter
         /\ loggers[l].transport = root.transport
         /\ loggers[l].getLogContext = root.getLogContext
         /\ \A m \in LogMethods :
              JsLessThan(LogLevel(m), loggers[l].logLevel)
                = JsLessThan(LogLevel(m), root.logLevel)

\* the keys a call contributes to the record's data
CallSiteKeys(data, fmt) ==
  IF data.kind = "error" THEN DOMAIN formatError(fmt, "", data).value
  ELSE IF data.kind = "object" THEN DOMAIN OwnProps(data)
  ELSE {"data"}

\* C10: every Logger keeps the scope and threshold it was constructed with,
\* whatever log and child calls follow; a log call leaves the caller's data
\* object as it was; the scope keys of a record a Logger emits are its own
C10_ConfigImmutable ==
  /\ \A l \in 1..Len(loggers) :
       /\ loggers[l] = Logger(derived[l].given)
       /\ ScopeOf(l) = derived[l].scope
  /\ IsLog => last.dataAfter = OwnProps(last.data)
  /\ (Emitted /\ "data" \in DOMAIN last.record) =>
       LET rd == last.record.data.props
           own == derived[last.logger].scope
           site == CallSiteKeys(last.data, loggers[last.logger].formatter)
       IN /\ DOMAIN rd \subseteq (DOMAIN own) \cup site
          /\ \A k \in (DOMAIN rd) \ site : rd[k] = own[k]

\* a Logger with two descendants whose keys collide with its own has logged an
\* object whose keys collide with its scope
C10_Witness ==
  /\ Emitted
  /\ last.logger = 1
  /\ Len(loggers) = 3
  /\ derived[3].parent = 2
  /\ last.data.kind = "object"
  /\ (DOMAIN derived[1].scope) \cap (DOMAIN OwnProps(last.data)) # {}
  /\ (DOMAIN derived[1].scope) \cap (DOMAIN derived[2].additions) # {}

----------------------------------------------------------------------------
(* Context store *)

Executions == 1..Len(store.frames)
\* the store of execution x, as a reference, and what getLogContext returns in it
StoreOf(x) == store.frames[x][Len(store.frames[x])]
ContextOf(x) == IF store.created THEN ContextValue(store, StoreOf(x)) ELSE Undefined

\* C11: with an accessor configured and a context active the emitted record
\* carries that context under `context` and no context key enters `data`;
\* otherwise the record has no `context` field
C11_ContextField ==
  Emitted =>
    LET cfg == loggers[last.logger]
        active == getLogContext # Undefined
    IN IF cfg.getLogContext /\ active
       THEN /\ "context" \in DOMAIN last.record
            /\ last.record.context = getLogContext
            /\ "data" \in DOMAIN last.record =>
                 LET rd == last.record.data.props
                     S == ScopeOf(last.logger)
                     src == CallSiteMapping(last.data, cfg.formatter)
                 IN \A k \in (DOMAIN getLogContext.props) \cap (DOMAIN rd) :
                      \/ k \in DOMAIN src /\ rd[k] = src[k]
                      \/ k \in DOMAIN S /\ rd[k] = S[k]
       ELSE "context" \notin DOMAIN last.record

\* a record with both a context and data was emitted inside a block, with
\* call-site data that has a key of the context
C11_Witness ==
  /\ Emitted
  /\ loggers[last.logger].getLogContext
  /\ getLogContext # Undefined
  /\ "data" \in DOMAIN last.record
  /\ last.data.kind = "object"
  /\ (DOMAIN getLogContext.props) \cap (DOMAIN last.data.props) # {}

\* the partial contexts of the blocks around a context object, outermost
\* first, overlaid in that order
RECURSIVE Chained(_)
Chained(r) ==
  IF r = 0 THEN EmptyMap ELSE Overlay(Chained(blocks[r].parent), blocks[r].partial)

\* no mutateContextScope was applied to the object or to a block around it
RECURSIVE Unmutated(_)
Unmutated(r) == r = 0 \/ (~blocks[r].mutated /\ Unmutated(blocks[r].parent))

\* C12: inside nested blocks getLogContext returns P1 overlaid by P2 .. Pn, in
\* the body and in every continuation created in it; runWithContext completes
\* with the value its body returns
C12_NestedOverlay ==
  /\ \A x \in Executions :
       (StoreOf(x) # 0 /\ Unmutated(StoreOf(x))) =>
         ContextOf(x) = Plain(Chained(StoreOf(x)))
  /\ (last.op = "getLogContext" /\ last.ref # 0 /\ Unmutated(last.ref)) =>
       last.context = Plain(Chained(last.ref))
  /\ last.op = "complete" => last.result = last.body

\* getLogContext was called in a continuation of a block nested in another,
\* where the inner partial context replaces one outer key and keeps another
C12_Witness ==
  /\ last.op = "getLogContext"
  /\ Len(Stack) = 1
  /\ last.ref # 0
  /\ Unmutated(last.ref)
  /\ blocks[last.ref].parent # 0
  /\ LET outer == blocks[blocks[last.ref].parent].partial
         inner == blocks[last.ref].partial
     IN /\ (DOMAIN outer) \cap (DOMAIN inner) # {}
        /\ (DOMAIN outer) \ (DOMAIN inner) # {}

\* C13: when a block exits, by return or by raise, the caller's context is
\* again the mapping that was active before the call; with every block opened
\* from no context exited, getLogContext returns undefined
C13_RestoredOnExit ==
  /\ last.op = "complete" =>
       /\ last.context = blocks[last.block].before
       /\ getLogContext = last.context
  /\ (last.op = "getLogContext" /\ Len(Stack) = 1 /\ Stack[1] = 0) =>
       last.context = Undefined

\* a nested block that changed a key of its parent's context, and was mutated,
\* has exited by raising
C13_Witness ==
  /\ last.op = "complete"
  /\ last.body = Raised
  /\ blocks[last.block].parent # 0
  /\ blocks[last.block].mutated
  /\ Plain(store.objects[last.block]) # last.context

\* C14: a step taken in one block changes no other context object, so it
\* changes neither what getLogContext returns in an execution that is in
\* another block nor the parent's mapping; and the context of an emitted
\* record holds only what the blocks around the call and the mutations made in
\* them put there
C14_Isolation ==
  /\ [][/\ \A r \in DOMAIN store.objects :
             (store.created /\ r # getStore) => store'.objects[r] = store.objects[r]
        /\ last'.op = "runWithContext" =>
             \A r \in DOMAIN store.objects : store'.objects[r] = store.objects[r]
        /\ \A x \in Executions :
             (x # store.running /\ StoreOf(x) # getStore) =>
               /\ store'.frames[x] = store.frames[x]
               /\ ContextValue(store', StoreOf(x)) = ContextOf(x)]_vars
  /\ [](\A r \in DOMAIN store.objects : store.objects[r] = blocks[r].replay)
  /\ []((Emitted /\ "context" \in DOMAIN last.record) =>
          last.record.context = Plain(blocks[getStore].replay))

\* two executions are each in their own block, and one of them has just
\* mutated its context
C14_Witness ==
  /\ last.op = "mutateContextScope"
  /\ last.ref # 0
  /\ \E x \in Executions : x # store.running /\ StoreOf(x) \notin {0, last.ref}

\* C15: mutateContextScope in a block adds or overwrites exactly the given
\* keys of the active mapping; the block sees the change from then on, a block
\* entered in it afterwards starts from the changed mapping, and no other
\* mapping changes
C15_MutationInBlock ==
  /\ (last.op = "mutateContextScope" /\ last.ref # 0) =>
       LET b == last.before.props
           a == last.context.props
           add == last.additions
       IN /\ DOMAIN a = (DOMAIN b) \cup (DOMAIN add)
          /\ \A k \in DOMAIN a : a[k] = IF k \in DOMAIN add THEN add[k] ELSE b[k]
          /\ getLogContext = last.context
  /\ \A r \in DOMAIN store.objects : store.objects[r] = blocks[r].replay
  /\ (last.op = "runWithContext" /\ last.parent # 0) =>
       LET p == store.objects[last.parent]
           c == last.context.props
       IN \A k \in DOMAIN p : k \in DOMAIN c /\ (k \notin DOMAIN last.partial => c[k] = p[k])
  /\ last.op = "complete" => last.context = blocks[last.block].before

\* a block was entered after a mutation of its parent, overriding one of the
\* mutated keys and inheriting the other
C15_Witness ==
  /\ last.op = "runWithContext"
  /\ last.parent # 0
  /\ blocks[last.parent].mutated
  /\ \E a \in MutationInputs :
       /\ (DOMAIN a) \cap (DOMAIN last.partial) # {}
       /\ \E k \in (DOMAIN a) \ (DOMAIN last.partial) : last.context.props[k] = a[k]

\* C16: mutateContextScope with no context active returns normally and creates
\* no context, and a block entered later from no context holds only its own
\* partial context
C16_MutationWithoutContext ==
  /\ (last.op = "mutateContextScope" /\ last.ref = 0) =>
       /\ last.outcome = "returned"
       /\ last.context = Undefined
       /\ getLogContext = Undefined
  /\ \A x \in Executions :
       (Len(store.frames[x]) = 1 /\ store.frames[x][1] = 0) => ContextOf(x) = Undefined
  /\ \A r \in DOMAIN store.objects :
       (blocks[r].parent = 0 /\ ~blocks[r].mutated) => store.objects[r] = blocks[r].partial

\* mutateContextScope was called with no context active, after the storage
\* had been created by an earlier block
C16_Witness ==
  /\ last.op = "mutateContextScope"
  /\ last.ref = 0
  /\ store.created

----------------------------------------------------------------------------
(* Rendered texts *)

\* s is t with some elements left out
IsSubsequence(s, t) ==
  \E keep \in SUBSET (DOMAIN t) : s = SelectSeq(t, LAMBDA k : \E i \in keep : t[i] = k)

\* C17: the JSON text of an emitted record is an object with the keys in the
\* order level, message, data (when present), context (when present), and
\* with the numeric severity as level (a record that JSON.stringify cannot
\* walk is rendered by inspect instead)
C17_KeyOrder ==
  (Emitted /\ loggers[last.logger].formatter = "json" /\ last.console[1].via = "json") =>
    LET text == last.console[1]
    IN /\ Characters("json", text).doc.t = "object"
       /\ IsSubsequence(DocumentKeys("json", text), <<"level", "message", "data", "context">>)
       /\ Characters("json", text).doc.members["level"] = JNum(last.level)

\* what parsing the text of v should give back: v, with a bigint as its
\* decimal string and an undefined member as the sentinel string
RECURSIVE Substituted(_)
Substituted(v) ==
  CASE v.kind = "bigint" -> Str(Decimal(v.n))
    [] v.kind = "undefined" -> Str("FakeValue { undefined }")
    [] v.kind = "array" -> Arr([i \in DOMAIN v.items |-> Substituted(v.items[i])])
    [] v.kind = "object" ->
         Plain(MapFrom(DOMAIN v.props, [k \in DOMAIN v.props |-> Substituted(v.props[k])]))
    [] OTHER -> v

Rendered == last.op = "formatLogData" /\ last.formatter \in {"json", "compact"}
ParsedBack == JsonParse(Characters(last.formatter, last.result.value))

\* C18 as stated: the text of every JSON-representable value, a top-level
\* string included, parses back to the value
C18_RoundTrip ==
  Rendered => (~last.result.raised /\ ParsedBack = Returned(Substituted(last.arg)))

\* C18, amended: the text of an object, an array, or a top-level number,
\* boolean or null parses back to the value, with bigints as decimal strings
\* and undefined members as the sentinel string
C18_RoundTripExceptStrings ==
  (Rendered /\ last.arg.kind # "string") =>
    (~last.result.raised /\ ParsedBack = Returned(Substituted(last.arg)))

\* an object nested in an object, holding a bigint or an undefined member, was
\* rendered by the compact formatter
C18_Witness ==
  /\ Rendered
  /\ last.formatter = "compact"
  /\ last.arg.kind = "object"
  /\ \E k \in DOMAIN last.arg.props :
       /\ last.arg.props[k].kind = "object"
       /\ \E j \in DOMAIN last.arg.props[k].props :
            last.arg.props[k].props[j].kind \in {"bigint", "undefined"}

\* the JSON walk of the value fails: the value, or a member at any depth,
\* refers to itself or has an accessor that raises
RECURSIVE Faulty(_)
Faulty(v) ==
  CASE v.kind = "object" ->
         v.self # {} \/ v.getters # {} \/ \E k \in DOMAIN v.props : Faulty(v.props[k])
    [] v.kind = "array" -> \E i \in DOMAIN v.items : Faulty(v.items[i])
    [] OTHER -> FALSE

\* C19: a value whose JSON walk fails is rendered by the inspection renderer
\* and the fault reaches no caller: the log call that is given such a value
\* returns and writes exactly one text
C19_FaultFallsBack ==
  (IsLog /\ Faulty(last.data)) =>
    /\ last.outcome = "emitted"
    /\ Len(last.console) + Len(last.transport) = 1
    /\ last.console = <<Text("inspect", last.record)>>

\* C20: errorToObject returns a mapping with the keys name, message and stack,
\* and with every key of the result of a toJSON method holding the value that
\* toJSON gave it
C20_ErrorMapping ==
  last.op = "errorToObject" =>
    /\ ~last.result.raised
    /\ {"name", "message", "stack"} \subseteq DOMAIN last.result.value
    /\ (TypeOf(last.error.toJSON) = "function"
          /\ last.error.toJSON.result.value.kind = "object") =>
         LET j == last.error.toJSON.result.value.props
         IN \A k \in DOMAIN j :
              k \in DOMAIN last.result.value /\ last.result.value[k] = j[k]

----------------------------------------------------------------------------
(* Cause chains *)

Converted == last.op = "errorToObject"

\* the errors E1, E2 ... En reached from an error through `cause`
RECURSIVE ChainOf(_)
ChainOf(error) ==
  IF error.cause.kind = "error" THEN <<error>> \o ChainOf(error.cause) ELSE <<error>>

\* error.name and error.message as a caller reads them
NameOf(error) ==
  IF "name" \in DOMAIN error.props THEN error.props["name"] ELSE Str("Error")
MessageOf(error) ==
  IF "message" \in DOMAIN error.props THEN error.props["message"] ELSE Str(error.message)

\* a chain of errors without a method of their own for serialization (a toJSON
\* result takes precedence over name and message) that ends in an error
\* without a cause
PlainChain(chain) ==
  /\ \A k \in DOMAIN chain : TypeOf(chain[k].toJSON) # "function"
  /\ chain[Len(chain)].cause = Undefined

\* the mapping is nested through `cause` as the chain is: one level per error,
\* each level with the name and message of its error, no `cause` in the last
RECURSIVE NestedAs(_, _)
NestedAs(mapping, chain) ==
  /\ mapping["name"] = NameOf(chain[1])
  /\ mapping["message"] = MessageOf(chain[1])
  /\ IF Len(chain) = 1
     THEN "cause" \notin DOMAIN mapping
     ELSE /\ "cause" \in DOMAIN mapping
          /\ mapping["cause"].kind = "object"
          /\ NestedAs(mapping["cause"].props, Tail(chain))

----------------------------------------------------------------------------
(* Layout *)

\* the paths of the members of a JSON document, at every depth
RECURSIVE MemberPaths(_, _)
MemberPaths(doc, path) ==
  UNION {{path \o <<k>>} \cup MemberPaths(Member(doc, k), path \o <<k>>) : k \in MemberKeys(doc)}

\* C22: in compact mode every rendered text is a single line, with no line
\* break and no indentation, on the JSON path and on the inspect fallback; in
\* non-compact mode the JSON path puts every nested member on a line indented
\* by 2 spaces per level, and the text parses to the same value as the
\* compact text
C22_CompactSingleLine ==
  (Rendered /\ ~last.result.raised) =>
    LET text == last.result.value
        lines == Layout(last.formatter, text)
    IN /\ last.formatter = "compact" => lines = {}
       /\ (last.formatter = "json" /\ text.via = "json") =>
            LET doc == Stringify("json", "", text.of)
            IN /\ MemberPaths(doc, <<>>) \subseteq {l.at : l \in lines}
               /\ \A l \in lines :
                    l.at \in MemberPaths(doc, <<>>) => l.indent = 2 * Len(l.at)
               /\ JsonParse(Characters("json", text))
                    = JsonParse(Characters("compact", formatLogData("compact", last.arg).value))

----------------------------------------------------------------------------
(* Substitution of members *)

\* formatLogData of the JSON formatter returned the JSON text of a composite
RenderedComposite ==
  /\ last.op = "formatLogData"
  /\ last.formatter = "json"
  /\ last.arg.kind \in {"object", "array"}
  /\ ~last.result.raised
  /\ last.result.value.via = "json"

\* the members of a value, at every depth, as pairs of path and value; the
\* members of an object or an array, not the properties of an error
RECURSIVE MembersOf(_, _)
MembersOf(v, path) ==
  LET K == IF v.kind \in {"object", "array"} THEN InspectKeys(v) ELSE {}
  IN UNION {{<<path \o <<k>>, InspectMember(v, k)>>}
              \cup MembersOf(InspectMember(v, k), path \o <<k>>) : k \in K}

\* the document at a path of a JSON document, NoJson when the path is not there
RECURSIVE DocAt(_, _)
DocAt(doc, path) ==
  IF path = <<>> THEN doc
  ELSE IF Head(path) \in MemberKeys(doc) THEN DocAt(Member(doc, Head(path)), Tail(path))
  ELSE NoJson

\* what a member of a kind named by the substitution rules is to become
SubstitutedMember(key, v) ==
  CASE v.kind = "bigint" -> JStr(Raw(Decimal(v.n)))
    [] v.kind = "regexp" -> JStr(Raw("Regexp { /source/flags }"))
    [] v.kind = "promise" ->
         JStr(Raw("Promise { you tried to log a promise at " \o key \o ". try awaiting it pls }"))
    [] v.kind = "undefined" -> JStr(Raw("FakeValue { undefined }"))
    [] v.kind = "string" -> JStr(Raw(v.s))
    [] v.kind = "number" -> JNum(v.n)
    [] v.kind = "boolean" -> JBool(v.b)
    [] v.kind = "null" -> JNull

\* C23: every member of a composite is in the JSON text, none is omitted: a
\* bigint as its decimal string, a RegExp as `Regexp { /source/flags }`, a
\* Promise as a warning string that names its key, an undefined member as the
\* string `FakeValue { undefined }`, every other value as it is (an error as
\* C24 says)
C23_SubstitutedByKind ==
  RenderedComposite =>
    LET doc == Characters("json", last.result.value).doc
    IN \A m \in MembersOf(last.arg, <<>>) :
         /\ DocAt(doc, m[1]) # NoJson
         /\ m[2].kind \in {"bigint", "regexp", "promise", "undefined",
                           "string", "number", "boolean", "null"} =>
              DocAt(doc, m[1]) = SubstitutedMember(m[1][Len(m[1])], m[2])

\* C24: every error found at a key of a composite, at any depth, is in the
\* JSON text as its errorToObject mapping, an object with at least name,
\* message and stack, also when the error has a toJSON method
C24_ErrorMembersConverted ==
  (last.op = "formatLogData" /\ last.formatter = "json"
     /\ last.arg.kind \in {"object", "array"}) =>
    \A m \in MembersOf(last.arg, <<>>) :
      m[2].kind = "error" =>
        /\ ~last.result.raised
        /\ last.result.value.via = "json"
        /\ LET d == DocAt(Characters("json", last.result.value).doc, m[1])
           IN /\ d.t = "object"
              /\ {"name", "message", "stack"} \subseteq DOMAIN d.members
              /\ ~errorToObject(m[2], "json").raised
              /\ d = Stringify("json", "", Plain(errorToObject(m[2], "json").value))

----------------------------------------------------------------------------
(* Causes and own properties of an error *)

\* C25: for an error that carries a cause which is not an error, whatever the
\* value is (a string, 0, false, the empty string, null), the mapping holds
\* under `cause` the text that formatLogData returns for the value
C25_NonErrorCause ==
  (Converted /\ last.error.cause.kind \notin {"undefined", "error"}) =>
    /\ ~last.result.raised
    /\ "cause" \in DOMAIN last.result.value
    /\ last.result.value["cause"] = formatLogData(last.formatter, last.error.cause).value

\* C26: for an error without a toJSON method the mapping holds every own
\* enumerable property of the error whose key is not name, message or stack,
\* under the same key, with the text formatLogData returns for the value; and
\* it holds no key besides these and name, message, stack, cause
C26_OwnPropertiesCopied ==
  (Converted /\ TypeOf(last.error.toJSON) # "function") =>
    LET own == (DOMAIN last.error.props) \ {"name", "message", "stack"}
    IN /\ ~last.result.raised
       /\ \A k \in own :
            /\ k \in DOMAIN last.result.value
            /\ last.result.value[k] = formatLogData(last.formatter, last.error.props[k]).value
       /\ DOMAIN last.result.value \subseteq own \cup {"name", "message", "stack", "cause"}

----------------------------------------------------------------------------
(* Termination of the conversion *)

\* following `cause` from an error ends within n links
RECURSIVE EndsWithin(_, _, _)
EndsWithin(h, ref, n) ==
  IF ref = 0 THEN TRUE ELSE IF n = 0 THEN FALSE ELSE EndsWithin(h, h[ref].cause, n - 1)

Acyclic(h, ref) == EndsWithin(h, ref, Len(h))

\* the number of errors on an acyclic chain
RECURSIVE ChainLength(_, _)
ChainLength(h, ref) == IF ref = 0 THEN 0 ELSE 1 + ChainLength(h, h[ref].cause)

\* the depth of a mapping through `cause`
RECURSIVE CauseDepth(_)
CauseDepth(mapping) ==
  IF "cause" \in DOMAIN mapping.props THEN 1 + CauseDepth(mapping.props["cause"]) ELSE 1

\* C27: the conversion makes one call per link of the cause chain, without a
\* depth cap and without a cycle guard: on an acyclic chain it terminates and
\* returns a mapping after as many calls as the chain has errors; on a chain
\* with a cycle it never returns a mapping, and goes on calling past the
\* number of errors there are
C27_Termination ==
  /\ [](last.outcome = "returned" =>
          /\ Acyclic(heap, last.start)
          /\ last.calls = ChainLength(heap, last.start)
          /\ CauseDepth(last.value) = last.calls)
  /\ Acyclic(heap, last.start) ~> (last.outcome = "returned")
  /\ (~Acyclic(heap, last.start)) ~> (last.calls > Len(heap))

\* A.cause = B and B.cause = A: the conversion of A has called itself for A a
\* second time
C27_Witness ==
  /\ Len(heap) = 2
  /\ heap[1].cause = 2
  /\ heap[2].cause = 1
  /\ last.start = 1
  /\ last.outcome = "running"
  /\ last.frames = <<1, 2, 1>>

----------------------------------------------------------------------------
(* Visibility of a mutation in nested blocks *)

\* the blocks from a block up to the outermost one, the block itself first
RECURSIVE PathUp(_)
PathUp(r) == IF r = 0 THEN <<>> ELSE <<r>> \o PathUp(blocks[r].parent)

\* the keys that mutateContextScope was given
MutatedKeys == UNION {DOMAIN a : a \in MutationInputs}

Read == last.op = "getLogContext" /\ last.ref # 0

\* C28 as stated: after a mutation in a block, getLogContext in that block or
\* in any block nested in it returns a mapping with the mutated keys, also
\* in a nested block that was entered before the mutation
C28_MutationVisibleToDescendants ==
  Read =>
    \A i \in DOMAIN PathUp(last.ref) :
      blocks[PathUp(last.ref)[i]].mutated => MutatedKeys \subseteq DOMAIN last.context.props

\* C28, amended: the mapping has the mutated keys in the block itself and in
\* a nested block when the blocks between the two were entered after the
\* mutation (each block gets a copy of its parent's mapping when it is
\* entered; context objects are numbered in the order of entry, and
\* mutatedAt is the number of objects there were at the first mutation)
C28_MutationVisibleAfterwards ==
  Read =>
    \A i \in DOMAIN PathUp(last.ref) :
      LET path == PathUp(last.ref)
      IN (blocks[path[i]].mutated /\ (i = 1 \/ path[i - 1] > blocks[path[i]].mutatedAt)) =>
           MutatedKeys \subseteq DOMAIN last.context.props

\* getLogContext in a block that was entered after its parent was mutated and
\* that was not mutated itself
C28_Witness ==
  /\ Read
  /\ blocks[last.ref].parent # 0
  /\ ~blocks[last.ref].mutated
  /\ blocks[blocks[last.ref].parent].mutated
  /\ last.ref > blocks[blocks[last.ref].parent].mutatedAt
  /\ "userId" \notin DOMAIN blocks[last.ref].partial

----------------------------------------------------------------------------
(* Aliases of the store's mappings *)

\* C29: the object getLogContext returned, the context object of a record and
\* the object passed to runWithContext are never the store's active mapping,
\* and a caller's write to any of them leaves what getLogContext returns as
\* it was
C29_NoExternalAlias ==
  last.op = "write" =>
    /\ last.ref # getStore
    /\ last.after = last.before

----------------------------------------------------------------------------
(* Records without call-site data *)

\* C30: a record of a call without call-site data has the Logger's scope as
\* its data, the same keys and values and no other key (no `data` key holding
\* undefined), and has no data field when the Logger has no scope
C30_ScopeOnlyData ==
  (Emitted /\ last.data = Undefined) =>
    IF loggers[last.logger].scope = 0
    THEN "data" \notin DOMAIN last.record
    ELSE /\ "data" \in DOMAIN last.record
         /\ last.record.data.props = ScopeOf(last.logger)

====
